---- MODULE Spec2Model ----
(***************************************************************************)
(* Recording session controllers of dusk-recording:                        *)
(*   scripts/headless_recorder.py   (start / stop / run commands)          *)
(*   scripts/screenshot_recorder.py (HTTP control server + frame sampler)  *)
(*   docker/entrypoint.py           (ServiceManager, container main)       *)
(*   docker/record_test.py          (ScreenRecorder, test run)             *)
(* Each behaviour is one run of one of the scripts (variable prog); child  *)
(* processes live in a process table indexed by pid.                       *)
(***************************************************************************)
EXTENDS Integers, Sequences, FiniteSets, TLC

\* ---------------------------------------------------------------- bounds
MaxPid == 4

MaxRecorders == 2

MaxCaptures == 3

\* ------------------------------------------------------------- constants
Progs == {"headless", "run_with", "record_test", "entrypoint", "server"}

Paths == {"a.mp4", "b.mp4"}

\* record_test.py: ScreenRecorder.temp_file and ScreenRecorder.output_file
TempFile == "/tmp/recording_pid.webm"

OutputFile == "/recordings/out.webm"

ExitCodes == {0, 1}

\* output a /start request may carry (the default of do_POST)
ServerPaths == {"/tmp/dusk-recording.mp4"}

\* fps values a /start request may carry (default 10)
FpsValues == {10}

WaitOutcomes == {"exited", "timeout"}

SpawnOutcomes == {"ok", "missing"}

\* mkdir + shutil.move of the temporary file: done, or OSError
MoveOutcomes == {"ok", "raises"}

\* request bodies: valid JSON, or text json.loads rejects
Bodies == {"json", "malformed"}

VARIABLES
  prog,       \* which script this run executes
  procs,      \* process table: pid -> [kind, st, sig, out]
  files,      \* artifact / temporary files present on disk
  sessions,   \* history: <<display pid, encoder pid>> of every spawned pair
  pidFile,    \* PID_FILE content: <<>> (absent) or <<xvfb, ffmpeg, output>>
  cliOut,     \* what the last headless command reported
  startsOk,   \* history: number of accepted Start
  stopsOk,    \* history: number of accepted Stop
  rpc,        \* run_with_recording: position
  rexit,      \* run_with_recording: how the controller left
  hr_xvfb,    \* HeadlessRecorder.xvfb_proc  (0 = None)
  hr_ffmpeg,  \* HeadlessRecorder.ffmpeg_proc (0 = None)
  tpc,        \* record_test.py main: position
  texit,      \* record_test.py main: how the process left
  rec_process,\* ScreenRecorder.process (0 = None)
  final_file, \* record_test.py main: what recorder.stop() returned ("" = None)
  test_exit_code, \* record_test.py main: run_dusk_test's return code
  display_ok, \* record_test.py main: what wait_for_display returned
  epc,        \* entrypoint.py main: position
  eexit,      \* entrypoint.py main: exit status (-1 = still running)
  processes,  \* ServiceManager.processes: pids in start order
  stopIdx,    \* ServiceManager.stop_all: next index of reversed(processes)
  esignalled, \* entrypoint.py: a SIGTERM/SIGINT handler has run
  recs,       \* every ScreenshotRecorder object created, with its capture thread
  hRecorder,  \* RecorderHTTPHandler.recorder: index into recs (0 = None)
  hOutput,    \* RecorderHTTPHandler.output_file ("" = None)
  hpc,        \* do_POST: position of the request being handled
  hidx,       \* do_POST /frame: frame index read by save_frame
  frameDir,   \* /tmp/dusk-screenshots: indices of the frame files present
  clock,      \* number of images captured so far
  lastResp,   \* response to the last request
  lastEncode, \* the last batch encode create_video invoked: frames read, fps
  posted,     \* history: /frame calls that saved a frame since the last Start
  hBody,      \* do_POST: body of the request being handled ("none" = no request)
  wire,       \* per recorder: captureScreenshot responses not yet received
  tShot,      \* per recorder: the image capture_loop holds between recv and write
  hShot,      \* do_POST /frame: the image it holds between recv and write
  stamps      \* /tmp/dusk-screenshots: frame index -> capture number (0 = no file)

commonVars == <<prog, procs, files, sessions, startsOk, stopsOk>>

cliVars == <<pidFile, cliOut>>

runVars == <<rpc, rexit, hr_xvfb, hr_ffmpeg>>

testVars == <<tpc, texit, rec_process, final_file, test_exit_code, display_ok>>

entryVars == <<epc, eexit, processes, stopIdx, esignalled>>

\* the capture path at the granularity of single send / recv calls
orderVars == <<wire, tShot, hShot, stamps>>

serverVars == <<recs, hRecorder, hOutput, hpc, hidx, frameDir, clock,
                lastResp, lastEncode, posted, hBody, orderVars>>

vars == <<commonVars, cliVars, runVars, testVars, entryVars, serverVars>>

\* ------------------------------------------------------- process table
Pids == 1..Len(procs)

NewProc(kind, out) == [kind |-> kind, st |-> "alive", sig |-> {}, out |-> out]

Spawn(ps, kind, out) == Append(ps, NewProc(kind, out))

Alive(ps, p) == p \in 1..Len(ps) /\ ps[p].st = "alive"

\* os.kill / Popen.terminate / send_signal: a dead pid takes no signal
Signal(ps, p, s) ==
  IF Alive(ps, p) THEN [ps EXCEPT ![p].sig = @ \cup {s}] ELSE ps

\* the process is gone (it exited inside a wait window, or was SIGKILLed)
Reap(ps, p) ==
  IF Alive(ps, p) THEN [ps EXCEPT ![p].st = "dead"] ELSE ps

\* a child exits on its own account: crash, or reaction to a pending signal
ProcExits(p) ==
  /\ Alive(procs, p)
  /\ procs' = Reap(procs, p)
  /\ UNCHANGED <<prog, files, sessions, startsOk, stopsOk, cliVars, runVars, testVars, entryVars, serverVars>>

\* the kernel gives the pid of a gone process to a new, unrelated process; the
\* children of the `start` command are orphans, reaped as soon as they exit
PidReused(p) ==
  /\ prog = "headless"
  /\ p \in Pids
  /\ ~Alive(procs, p)
  /\ procs' = [procs EXCEPT ![p] = NewProc("other", "")]
  /\ UNCHANGED <<prog, files, sessions, startsOk, stopsOk, cliVars, runVars, testVars, entryVars, serverVars>>

\* a running encoder creates its output file
EncoderWrites(p) ==
  /\ Alive(procs, p)
  /\ procs[p].kind = "ffmpeg"
  /\ procs[p].out \notin files
  /\ files' = files \cup {procs[p].out}
  /\ UNCHANGED <<prog, procs, sessions, startsOk, stopsOk, cliVars, runVars, testVars, entryVars, serverVars>>

\* ------------------------------------------- headless_recorder.py: CLI
\* HeadlessRecorder.save_pids: three lines
save_pids(xvfb_pid, ffmpeg_pid, output_file) == <<xvfb_pid, ffmpeg_pid, output_file>>

\* HeadlessRecorder.load_pids: (None, None, None) is <<0, 0, "">>
load_pids(pf) == IF Len(pf) >= 3 THEN <<pf[1], pf[2], pf[3]>> ELSE <<0, 0, "">>

\* HeadlessRecorder.cleanup_pid_file
cleanup_pid_file(pf) == <<>>

\* start_recording(output_file): the `start` command
CliStart(out, spawn) ==
  /\ prog = "headless"
  /\ Len(procs) + 2 <= MaxPid
  /\ LET xvfb_pid == Len(procs) + 1
         ffmpeg_pid == Len(procs) + 2
         withX == Spawn(procs, "Xvfb", "")
     IN IF spawn = "ok"
        THEN /\ procs' = Spawn(withX, "ffmpeg", out)
             /\ pidFile' = save_pids(xvfb_pid, ffmpeg_pid, out)
             /\ sessions' = Append(sessions, <<xvfb_pid, ffmpeg_pid>>)
             /\ startsOk' = startsOk + 1
             /\ cliOut' = [cmd |-> "start", result |-> "started", output |-> out]
        ELSE \* Popen(ffmpeg) raises: the command dies after Xvfb was spawned
             /\ procs' = withX
             /\ sessions' = Append(sessions, <<xvfb_pid, 0>>)
             /\ cliOut' = [cmd |-> "start", result |-> "error", output |-> ""]
             /\ UNCHANGED <<pidFile, startsOk>>
  /\ UNCHANGED <<prog, files, stopsOk, runVars, testVars, entryVars, serverVars>>

\* stop_recording(): the `stop` command
CliStop(slept) ==
  /\ prog = "headless"
  /\ LET loaded == load_pids(pidFile)
         xvfb_pid == loaded[1]
         ffmpeg_pid == loaded[2]
         output_file == loaded[3]
     IN IF xvfb_pid = 0
        THEN /\ cliOut' = [cmd |-> "stop", result |-> "not_active", output |-> ""]
             /\ UNCHANGED <<procs, pidFile, stopsOk>>
        ELSE LET killed == Signal(procs, ffmpeg_pid, "TERM")
                 after == IF slept = "exited" THEN Reap(killed, ffmpeg_pid) ELSE killed
             IN /\ procs' = Signal(after, xvfb_pid, "TERM")
                /\ pidFile' = cleanup_pid_file(pidFile)
                /\ stopsOk' = stopsOk + 1
                /\ cliOut' = [cmd |-> "stop", result |-> "stopped", output |-> output_file]
  /\ UNCHANGED <<prog, files, sessions, startsOk, runVars, testVars, entryVars, serverVars>>

\* ------------------------------ headless_recorder.py: HeadlessRecorder
\* HeadlessRecorder.stop
HeadlessRecorder_stop(ps, xvfb_proc, ffmpeg_proc, waited) ==
  LET afterEnc ==
        IF ffmpeg_proc = 0 THEN ps
        ELSE IF Alive(ps, ffmpeg_proc)
             THEN IF waited = "exited"
                  THEN Reap(Signal(ps, ffmpeg_proc, "q"), ffmpeg_proc)
                  ELSE Signal(Signal(ps, ffmpeg_proc, "q"), ffmpeg_proc, "TERM")
             ELSE ps   \* write to a closed pipe raises; terminate() of a dead child
  IN IF xvfb_proc = 0 THEN afterEnc ELSE Signal(afterEnc, xvfb_proc, "TERM")

\* run_with_recording: recorder.start_xvfb()
RunStartXvfb ==
  /\ prog = "run_with"
  /\ rpc = "init"
  /\ Len(procs) + 1 <= MaxPid
  /\ procs' = Spawn(procs, "Xvfb", "")
  /\ hr_xvfb' = Len(procs) + 1
  /\ rpc' = "xvfb_up"
  /\ UNCHANGED <<prog, files, sessions, startsOk, stopsOk, cliVars, rexit, hr_ffmpeg, testVars, entryVars, serverVars>>

\* run_with_recording: recorder.start_recording(output_file)
RunStartRecording(out, spawn) ==
  /\ prog = "run_with"
  /\ rpc = "xvfb_up"
  /\ Len(procs) + 1 <= MaxPid
  /\ IF spawn = "ok"
     THEN /\ procs' = Spawn(procs, "ffmpeg", out)
          /\ hr_ffmpeg' = Len(procs) + 1
          /\ sessions' = Append(sessions, <<hr_xvfb, Len(procs) + 1>>)
          /\ startsOk' = startsOk + 1
          /\ rpc' = "running"
          /\ UNCHANGED rexit
     ELSE \* Popen raises outside the try: no finally, no stop
          /\ sessions' = Append(sessions, <<hr_xvfb, 0>>)
          /\ rpc' = "exited"
          /\ rexit' = "start_failed"
          /\ UNCHANGED <<procs, hr_ffmpeg, startsOk>>
  /\ UNCHANGED <<prog, files, stopsOk, cliVars, hr_xvfb, testVars, entryVars, serverVars>>

\* run_with_recording: the command returns; finally: recorder.stop()
RunCommandDone(waited) ==
  /\ prog = "run_with"
  /\ rpc = "running"
  /\ procs' = HeadlessRecorder_stop(procs, hr_xvfb, hr_ffmpeg, waited)
  /\ stopsOk' = stopsOk + 1
  /\ rpc' = "exited"
  /\ rexit' = "returned"
  /\ UNCHANGED <<prog, files, sessions, startsOk, cliVars, hr_xvfb, hr_ffmpeg, testVars, entryVars, serverVars>>

\* SIGINT: KeyboardInterrupt; only the try block (183) has a finally
RunSigint(waited) ==
  /\ prog = "run_with"
  /\ rpc \in {"xvfb_up", "running"}
  /\ IF rpc = "running"
     THEN /\ procs' = HeadlessRecorder_stop(procs, hr_xvfb, hr_ffmpeg, waited)
          /\ stopsOk' = stopsOk + 1
     ELSE UNCHANGED <<procs, stopsOk>>
  /\ rpc' = "exited"
  /\ rexit' = IF rpc = "running" THEN "sigint" ELSE "sigint_startup"
  /\ UNCHANGED <<prog, files, sessions, startsOk, cliVars, hr_xvfb, hr_ffmpeg, testVars, entryVars, serverVars>>

\* SIGTERM: no handler is installed, the default action ends the process
RunSigterm ==
  /\ prog = "run_with"
  /\ rpc \in {"xvfb_up", "running"}
  /\ rpc' = "exited"
  /\ rexit' = IF rpc = "running" THEN "sigterm" ELSE "sigterm_startup"
  /\ UNCHANGED <<commonVars, cliVars, hr_xvfb, hr_ffmpeg, testVars, entryVars, serverVars>>

\* --------------------------------------------- record_test.py
\* ScreenRecorder.stop: <<process table, files, returned path>>; the path is
\* "" for None and "raised" when mkdir or shutil.move raises out of stop
ScreenRecorder_stop(ps, fs, process, waited, move) ==
  IF process = 0 THEN <<ps, fs, "">>
  ELSE LET sent == Signal(ps, process, "INT")
           gone == IF waited = "exited"
                   THEN Reap(sent, process)
                   ELSE Reap(Signal(sent, process, "KILL"), process)
       IN IF TempFile \in fs
          THEN IF move = "ok"
               THEN <<gone, (fs \ {TempFile}) \cup {OutputFile}, OutputFile>>
               ELSE <<gone, fs, "raised">>
          ELSE <<gone, fs, "">>

\* main: wait_for_display; a False result only prints a warning
TWaitDisplay(ok) ==
  /\ prog = "record_test"
  /\ tpc = "init"
  /\ display_ok' = ok
  /\ tpc' = "display_waited"
  /\ UNCHANGED <<commonVars, cliVars, runVars, texit, rec_process, final_file,
                 test_exit_code, entryVars, serverVars>>

\* ScreenRecorder.start: Popen(ffmpeg ... temp_file)
TStartSpawn(spawn) ==
  /\ prog = "record_test"
  /\ tpc = "display_waited"
  /\ Len(procs) + 1 <= MaxPid
  /\ IF spawn = "ok"
     THEN /\ procs' = Spawn(procs, "ffmpeg", TempFile)
          /\ rec_process' = Len(procs) + 1
          /\ tpc' = "start_wait"
          /\ UNCHANGED texit
     ELSE \* Popen raises; main: except Exception -> sys.exit(1)
          /\ tpc' = "exited"
          /\ texit' = "start_failed"
          /\ UNCHANGED <<procs, rec_process>>
  /\ UNCHANGED <<prog, files, sessions, startsOk, stopsOk, cliVars, runVars,
                 final_file, test_exit_code, display_ok, entryVars, serverVars>>

\* ScreenRecorder.start: after sleep(2), poll(); main: sys.exit(1) on RuntimeError
TStartCheck ==
  /\ prog = "record_test"
  /\ tpc = "start_wait"
  /\ IF Alive(procs, rec_process)
     THEN /\ tpc' = "testing"
          /\ startsOk' = startsOk + 1
          /\ sessions' = Append(sessions, <<0, rec_process>>)
          /\ UNCHANGED texit
     ELSE /\ tpc' = "exited"
          /\ texit' = "start_failed"
          /\ UNCHANGED <<startsOk, sessions>>
  /\ UNCHANGED <<prog, procs, files, stopsOk, cliVars, runVars,
                 rec_process, final_file, test_exit_code, display_ok, entryVars, serverVars>>

\* run_dusk_test returns the test's exit code
TTestDone(rc) ==
  /\ prog = "record_test"
  /\ tpc = "testing"
  /\ test_exit_code' = rc
  /\ tpc' = "stopping"
  /\ UNCHANGED <<commonVars, cliVars, runVars, texit, rec_process, final_file, display_ok, entryVars, serverVars>>

\* run_dusk_test raises (php cannot be spawned): nothing catches it
TTestRaises ==
  /\ prog = "record_test"
  /\ tpc = "testing"
  /\ tpc' = "exited"
  /\ texit' = "test_raised"
  /\ UNCHANGED <<commonVars, cliVars, runVars, rec_process, final_file,
                 test_exit_code, display_ok, entryVars, serverVars>>

\* main: final_file = recorder.stop(); sys.exit(test_exit_code); an exception
\* out of recorder.stop() is not caught
TStop(waited, move) ==
  /\ prog = "record_test"
  /\ tpc = "stopping"
  /\ move = "raises" => TempFile \in files
  /\ LET r == ScreenRecorder_stop(procs, files, rec_process, waited, move)
     IN /\ procs' = r[1]
        /\ files' = r[2]
        /\ final_file' = IF r[3] = "raised" THEN final_file ELSE r[3]
        /\ texit' = IF r[3] = "raised" THEN "stop_raised" ELSE "test_exit_code"
  /\ stopsOk' = stopsOk + 1
  /\ tpc' = "exited"
  /\ UNCHANGED <<prog, sessions, startsOk, cliVars, runVars, rec_process,
                 test_exit_code, display_ok, entryVars, serverVars>>

\* the status record_test.py exits with, signals aside: sys.exit(test_exit_code)
\* at the end of main, otherwise sys.exit(1) or an uncaught exception (status 1)
TExitStatus == IF texit = "test_exit_code" THEN test_exit_code ELSE 1

\* SIGINT raises KeyboardInterrupt, SIGTERM takes its default action:
\* main installs no handler and has no finally
TSignal(sig) ==
  /\ prog = "record_test"
  /\ tpc \in {"start_wait", "testing", "stopping"}
  /\ tpc' = "exited"
  /\ texit' = IF sig = "INT" THEN "sigint" ELSE "sigterm"
  /\ UNCHANGED <<commonVars, cliVars, runVars, rec_process, final_file,
                 test_exit_code, display_ok, entryVars, serverVars>>

\* --------------------------------------------- entrypoint.py
\* sys.exit(code): the atexit hook runs services.stop_all()
SysExit(code) ==
  /\ epc' = "stop_all"
  /\ eexit' = code
  /\ stopIdx' = Len(processes')

\* ServiceManager.start_xvfb: Popen, processes.append
EStartXvfb ==
  /\ prog = "entrypoint"
  /\ epc = "init"
  /\ Len(procs) + 1 <= MaxPid
  /\ procs' = Spawn(procs, "Xvfb", "")
  /\ processes' = Append(processes, Len(procs) + 1)
  /\ epc' = "xvfb_wait"
  /\ UNCHANGED <<prog, files, sessions, startsOk, stopsOk, cliVars, runVars,
                 testVars, eexit, stopIdx, esignalled, serverVars>>

\* ServiceManager.start_xvfb: xdpyinfo check; main: sys.exit(1) on False
EVerifyXvfb(ok) ==
  /\ prog = "entrypoint"
  /\ epc = "xvfb_wait"
  /\ ok => Alive(procs, processes[1])
  /\ UNCHANGED processes
  /\ IF ok THEN epc' = "xvfb_ok" /\ UNCHANGED <<eexit, stopIdx>>
           ELSE SysExit(1)
  /\ UNCHANGED <<commonVars, cliVars, runVars, testVars, esignalled, serverVars>>

\* ServiceManager.start_chromedriver: Popen, processes.append
EStartChromedriver(spawn) ==
  /\ prog = "entrypoint"
  /\ epc = "xvfb_ok"
  /\ Len(procs) + 1 <= MaxPid
  /\ IF spawn = "ok"
     THEN /\ procs' = Spawn(procs, "chromedriver", "")
          /\ processes' = Append(processes, Len(procs) + 1)
          /\ epc' = "cd_wait"
          /\ UNCHANGED <<eexit, stopIdx>>
     ELSE \* Popen raises: the interpreter exits with status 1
          /\ UNCHANGED <<procs, processes>>
          /\ SysExit(1)
  /\ UNCHANGED <<prog, files, sessions, startsOk, stopsOk, cliVars, runVars,
                 testVars, esignalled, serverVars>>

\* ServiceManager.start_chromedriver: poll() after sleep(2)
ECheckChromedriver ==
  /\ prog = "entrypoint"
  /\ epc = "cd_wait"
  /\ UNCHANGED processes
  /\ IF Alive(procs, processes[2])
     THEN epc' = "services_ok" /\ UNCHANGED <<eexit, stopIdx>>
     ELSE SysExit(1)
  /\ UNCHANGED <<commonVars, cliVars, runVars, testVars, esignalled, serverVars>>

\* run_recording: subprocess.run(record_test.py) starts the child
ERunRecording ==
  /\ prog = "entrypoint"
  /\ epc = "services_ok"
  /\ Len(procs) + 1 <= MaxPid
  /\ procs' = Spawn(procs, "record_test", "")
  /\ epc' = "recording"
  /\ UNCHANGED <<prog, files, sessions, startsOk, stopsOk, cliVars, runVars,
                 testVars, eexit, processes, stopIdx, esignalled, serverVars>>

\* run_recording returns the child's return code; main: sys.exit(exit_code)
ERecordingDone(rc) ==
  /\ prog = "entrypoint"
  /\ epc = "recording"
  /\ procs' = Reap(procs, Len(procs))
  /\ UNCHANGED processes
  /\ SysExit(rc)
  /\ UNCHANGED <<prog, files, sessions, startsOk, stopsOk, cliVars, runVars,
                 testVars, esignalled, serverVars>>

\* SIGTERM / SIGINT handler: sys.exit(0); subprocess.run kills its child
ESignal ==
  /\ prog = "entrypoint"
  /\ epc \in {"xvfb_wait", "xvfb_ok", "cd_wait", "services_ok", "recording"}
  /\ procs' = IF epc = "recording"
              THEN Reap(Signal(procs, Len(procs), "KILL"), Len(procs))
              ELSE procs
  /\ esignalled' = TRUE
  /\ UNCHANGED processes
  /\ SysExit(0)
  /\ UNCHANGED <<prog, files, sessions, startsOk, stopsOk, cliVars, runVars, testVars, serverVars>>

\* stop_all without the kill() after the 5 s wait timed out
stop_one_NoKill(ps, p, waited) ==
  IF Alive(ps, p)
  THEN IF waited = "exited"
       THEN Reap(Signal(ps, p, "TERM"), p)
       ELSE Signal(ps, p, "TERM")
  ELSE ps

\* ServiceManager.stop_all: one iteration of the loop body
stop_one(ps, p, waited) ==
  IF Alive(ps, p)
  THEN IF waited = "exited"
       THEN Reap(Signal(ps, p, "TERM"), p)
       ELSE Reap(Signal(Signal(ps, p, "TERM"), p, "KILL"), p)
  ELSE ps

\* ServiceManager.stop_all: for name, proc in reversed(self.processes)
EStopNext(waited) ==
  /\ prog = "entrypoint"
  /\ epc = "stop_all"
  /\ IF stopIdx = 0
     THEN /\ epc' = "exited"
          /\ UNCHANGED <<procs, stopIdx>>
     ELSE /\ procs' = stop_one(procs, processes[stopIdx], waited)
          /\ stopIdx' = stopIdx - 1
          /\ UNCHANGED epc
  /\ UNCHANGED <<prog, files, sessions, startsOk, stopsOk, cliVars, runVars,
                 testVars, eexit, processes, esignalled, serverVars>>

\* --------------------------------------------- screenshot_recorder.py
\* ScreenshotRecorder.__init__ (the thread fields are those of capture_loop)
NewRecorder(fps) ==
  [recording |-> FALSE, frame_count |-> 0, ws |-> "none", fps |-> fps,
   tpc |-> "none", tidx |-> 0, written |-> {}, rewritten |-> FALSE, stops |-> 0]

\* the directory after open(frame_path, 'wb').write(frame_data)
PutFrame(dir, idx) == dir \cup {idx}

\* the directory after rmtree + makedirs
EmptyDir == {}

\* no frame file has a capture number
NoStamps == [i \in 0..MaxCaptures |-> 0]

\* no image in hand
NoShot == [by |-> "", at |-> 0]

\* a recorder's write history after it wrote frame idx
Wrote(rec, idx) ==
  [rec EXCEPT !.written = @ \cup {idx}, !.rewritten = @ \/ idx \in rec.written]

\* ffmpeg -i frame_%06d.png reads the numbered sequence from 0 up to the first gap
RECURSIVE SequenceLength(_, _)
SequenceLength(dir, i) ==
  IF i \in dir THEN SequenceLength(dir, i + 1) ELSE i

\* ScreenshotRecorder.take_screenshot_cdp: possible results on connection state ws
ShotOutcomes(ws) ==
  IF ws = "none" THEN {"none"}
  ELSE IF ws = "closed" THEN {"raise"}
  ELSE {"frame", "none", "raise"}

\* RecorderHTTPHandler.recorder = ScreenshotRecorder(...): the object it replaces
\* is unreferenced once its capture thread has ended, and is collected; while
\* its thread runs, only the fields the thread reads are kept
Rebind(rs, old, new) ==
  LET kept == IF old = 0 THEN rs
              ELSE IF rs[old].tpc \in {"none", "done"}
              THEN [rs EXCEPT ![old] = NewRecorder(0)]
              ELSE [rs EXCEPT ![old].written = {}, ![old].rewritten = FALSE,
                              ![old].stops = 0, ![old].fps = 0]
  IN Append(kept, new)

Respond(code, status, output) == [code |-> code, status |-> status, output |-> output]

\* a threading server would begin a do_POST at any time
HandlerFree_Threaded == TRUE

\* serve_forever of HTTPServer handles one request at a time: do_POST begins
\* only when the previous do_POST has returned
HandlerFree == hpc = "idle"

\* do_POST /start up to the binding of output_file and recorder
ReqStart(dbg, out, fps) ==
  /\ prog = "server"
  /\ HandlerFree
  /\ IF dbg = "missing"
     THEN /\ lastResp' = Respond(400, "debugger_url required", "")
          /\ UNCHANGED <<recs, hRecorder, hOutput, hpc, posted, hBody>>
     ELSE /\ Len(recs) < MaxRecorders
          /\ hOutput' = out
          /\ hRecorder' = Len(recs) + 1
          /\ recs' = Rebind(recs, hRecorder, NewRecorder(fps))
          /\ posted' = 0
          /\ hpc' = "st_connect"
          /\ hBody' = "json"
          /\ UNCHANGED lastResp
  /\ UNCHANGED <<commonVars, cliVars, runVars, testVars, entryVars, hidx, frameDir,
                 clock, lastEncode, orderVars>>

\* do_POST /start: connect_cdp, start_recording, the 200 response
StartConnect(conn) ==
  /\ prog = "server"
  /\ hpc = "st_connect"
  /\ IF conn = "refused"
     THEN \* connect_cdp raises: the handler ends without a response
          /\ lastResp' = Respond(0, "exception", "")
          /\ UNCHANGED <<recs, frameDir, startsOk, stamps>>
     ELSE /\ recs' = [recs EXCEPT ![hRecorder].ws = "open",
                                  ![hRecorder].recording = TRUE,
                                  ![hRecorder].frame_count = 0,
                                  ![hRecorder].tpc = "loop"]
          /\ frameDir' = EmptyDir
          /\ stamps' = NoStamps
          /\ startsOk' = startsOk + 1
          /\ lastResp' = Respond(200, "recording", "")
  /\ hpc' = "idle"
  /\ hBody' = "none"
  /\ UNCHANGED <<prog, procs, files, sessions, stopsOk, cliVars, runVars, testVars,
                 entryVars, hRecorder, hOutput, hidx, clock, lastEncode, posted,
                 wire, tShot, hShot>>

\* capture_loop, one iteration up to the write: `while self.recording`,
\* frame = self.take_screenshot_cdp() (failures are skipped, then sleep), and
\* save_frame building frame_path from self.frame_count
LoopCapture(r, shot) ==
  /\ prog = "server"
  /\ UNCHANGED <<posted, hBody, orderVars>>
  /\ recs[r].tpc = "loop"
  /\ IF ~recs[r].recording
     THEN /\ shot = "none"
          /\ recs' = [recs EXCEPT ![r].tpc = "done"]
          /\ UNCHANGED clock
     ELSE /\ shot \in ShotOutcomes(recs[r].ws)
          /\ IF shot = "frame"
             THEN /\ clock < MaxCaptures
                  /\ clock' = clock + 1
                  /\ recs' = [recs EXCEPT ![r].tpc = "write",
                                          ![r].tidx = recs[r].frame_count]
             ELSE UNCHANGED <<recs, clock>>
  /\ UNCHANGED <<commonVars, cliVars, runVars, testVars, entryVars, hRecorder, hOutput,
                 hpc, hidx, frameDir, lastResp, lastEncode>>

\* save_frame in capture_loop: the file is written
LoopWrite(r) ==
  /\ prog = "server"
  /\ UNCHANGED <<posted, hBody, orderVars>>
  /\ recs[r].tpc = "write"
  /\ frameDir' = PutFrame(frameDir, recs[r].tidx)
  /\ recs' = [recs EXCEPT ![r] = [(IF r = hRecorder THEN Wrote(@, recs[r].tidx) ELSE @)
                                     EXCEPT !.tpc = "incr", !.tidx = 0]]
  /\ UNCHANGED <<commonVars, cliVars, runVars, testVars, entryVars, hRecorder, hOutput,
                 hpc, hidx, clock, lastResp, lastEncode>>

\* save_frame in capture_loop: self.frame_count += 1, then sleep
LoopIncr(r) ==
  /\ prog = "server"
  /\ UNCHANGED <<posted, hBody, orderVars>>
  /\ recs[r].tpc = "incr"
  /\ recs' = [recs EXCEPT ![r].tpc = "loop", ![r].frame_count = @ + 1, ![r].tidx = 0]
  /\ UNCHANGED <<commonVars, cliVars, runVars, testVars, entryVars, hRecorder, hOutput,
                 hpc, hidx, frameDir, clock, lastResp, lastEncode>>

\* do_POST /frame: the guard, take_screenshot_cdp; save_frame builds frame_path
\* (a body that is not valid JSON is parsed as {} and never looked at)
ReqFrame(shot, body) ==
  /\ prog = "server"
  /\ UNCHANGED <<posted, orderVars>>
  /\ HandlerFree
  /\ IF hRecorder # 0 /\ recs[hRecorder].ws # "none"
     THEN /\ shot \in ShotOutcomes(recs[hRecorder].ws)
          /\ IF shot = "frame"
             THEN /\ clock < MaxCaptures
                  /\ clock' = clock + 1
                  /\ hidx' = recs[hRecorder].frame_count
                  /\ hpc' = "f_write"
                  /\ hBody' = body
                  /\ UNCHANGED lastResp
             ELSE /\ lastResp' = IF shot = "raise" THEN Respond(0, "exception", "")
                                 ELSE Respond(200, "", "")
                  /\ UNCHANGED <<clock, hpc, hidx, hBody>>
     ELSE /\ shot = "none"
          /\ lastResp' = Respond(200, "", "")
          /\ UNCHANGED <<clock, hpc, hidx, hBody>>
  /\ UNCHANGED <<commonVars, cliVars, runVars, testVars, entryVars, recs, hRecorder,
                 hOutput, frameDir, lastEncode>>

\* do_POST /frame: save_frame writes the file
FrameWrite ==
  /\ prog = "server"
  /\ UNCHANGED <<posted, hBody, orderVars>>
  /\ hpc = "f_write"
  /\ frameDir' = PutFrame(frameDir, hidx)
  /\ recs' = [recs EXCEPT ![hRecorder] = Wrote(@, hidx)]
  /\ hpc' = "f_incr"
  /\ hidx' = 0
  /\ UNCHANGED <<commonVars, cliVars, runVars, testVars, entryVars, hRecorder,
                 hOutput, clock, lastResp, lastEncode>>

\* do_POST /frame: self.frame_count += 1, then the 200 response
FrameIncr ==
  /\ prog = "server"
  /\ posted' = posted + 1
  /\ hBody' = "none"
  /\ UNCHANGED orderVars
  /\ hpc = "f_incr"
  /\ recs' = [recs EXCEPT ![hRecorder].frame_count = @ + 1]
  /\ lastResp' = Respond(200, "", "")
  /\ hpc' = "idle"
  /\ hidx' = 0
  /\ UNCHANGED <<commonVars, cliVars, runVars, testVars, entryVars, hRecorder,
                 hOutput, frameDir, clock, lastEncode>>

\* do_POST /stop: the guard; stop_recording sets recording = False and sleeps
\* (a body that is not valid JSON is parsed as {} and never looked at)
ReqStop(body) ==
  /\ prog = "server"
  /\ UNCHANGED <<posted, orderVars>>
  /\ HandlerFree
  /\ IF hRecorder # 0
     THEN /\ recs' = [recs EXCEPT ![hRecorder].recording = FALSE,
                                  ![hRecorder].stops = IF @ = 0 THEN 1 ELSE 2]
          /\ hpc' = "s_sleep"
          /\ hBody' = body
          /\ UNCHANGED lastResp
     ELSE /\ lastResp' = Respond(400, "No recording in progress", "")
          /\ UNCHANGED <<recs, hpc, hBody>>
  /\ UNCHANGED <<prog, procs, files, sessions, startsOk, stopsOk, cliVars, runVars, testVars,
                 entryVars, hRecorder, hOutput, hidx, frameDir, clock,
                 lastEncode>>

\* do_POST: any other path
ReqUnknown ==
  /\ prog = "server"
  /\ HandlerFree
  /\ lastResp' = Respond(404, "Not found", "")
  /\ UNCHANGED <<commonVars, cliVars, runVars, testVars, entryVars, recs, hRecorder,
                 hOutput, hpc, hidx, frameDir, clock, lastEncode, posted, hBody,
                 orderVars>>

NoEncode == [frames |-> 0, fps |-> 0]

\* create_video with the threshold off by one
EnoughFrames_OffByOne(frame_count) == frame_count >= 1

\* create_video: whether the batch encoder is invoked
EnoughFrames(frame_count) == frame_count >= 2

\* stop_recording joining capture thread r before it goes on
StopSleepDone_Join(r) == recs[r].tpc \in {"none", "done"}

\* stop_recording: time.sleep(0.5) returns whatever capture thread r is doing;
\* the thread is not joined
StopSleepDone(r) == TRUE

\* stop_recording: ws.close(); create_video up to the start of ffmpeg
StopClose ==
  /\ prog = "server"
  /\ posted' = 0
  /\ UNCHANGED orderVars
  /\ hpc = "s_sleep"
  /\ StopSleepDone(hRecorder)
  /\ recs' = [recs EXCEPT ![hRecorder].ws = IF @ = "none" THEN "none" ELSE "closed"]
  /\ IF EnoughFrames(recs[hRecorder].frame_count)
     THEN /\ lastEncode' = [frames |-> SequenceLength(frameDir, 0),
                             fps |-> recs[hRecorder].fps]
          /\ hpc' = "s_encode"
          /\ UNCHANGED <<lastResp, hBody>>
     ELSE /\ lastResp' = Respond(200, "stopped", "")
          /\ hpc' = "idle"
          /\ hBody' = "none"
          /\ UNCHANGED lastEncode
  /\ UNCHANGED <<commonVars, cliVars, runVars, testVars, entryVars, hRecorder,
                 hOutput, hidx, frameDir, clock>>

\* create_video: ffmpeg returned; rmtree(output_dir); the /stop response
StopEncoded(returncode) ==
  /\ prog = "server"
  /\ hBody' = "none"
  /\ UNCHANGED <<posted, wire, tShot, hShot>>
  /\ hpc = "s_encode"
  /\ frameDir' = EmptyDir
  /\ stamps' = NoStamps
  /\ files' = IF returncode = 0 THEN files \cup {hOutput} ELSE files
  /\ lastResp' = Respond(200, "stopped", IF returncode = 0 THEN hOutput ELSE "")
  /\ hpc' = "idle"
  /\ UNCHANGED <<prog, procs, sessions, startsOk, stopsOk, cliVars, runVars, testVars,
                 entryVars, recs, hRecorder, hOutput, hidx, clock, lastEncode>>

\* ------------------- screenshot_recorder.py, the capture path call by call
\* The steps below take take_screenshot_cdp and save_frame apart into the
\* single calls at which the capture thread and the request handler can
\* interleave; an image carries its capture number and the requester it was
\* taken for. Only captures Chrome answers with an image are followed.

\* capture_loop: `while self.recording`, take_screenshot_cdp up to ws.send;
\* Chrome takes the image on receipt and queues the response on the connection
LoopSend(r) ==
  /\ prog = "server"
  /\ recs[r].tpc = "loop"
  /\ recs[r].recording
  /\ recs[r].ws = "open"
  /\ clock < MaxCaptures
  /\ clock' = clock + 1
  /\ wire' = [wire EXCEPT ![r] = Append(@, [by |-> "loop", at |-> clock + 1])]
  /\ recs' = [recs EXCEPT ![r].tpc = "recv"]
  /\ UNCHANGED <<commonVars, cliVars, runVars, testVars, entryVars, hRecorder, hOutput,
                 hpc, hidx, frameDir, lastResp, lastEncode, posted, hBody,
                 tShot, hShot, stamps>>

\* capture_loop: take_screenshot_cdp, self.ws.recv() returns the next response
\* on the connection, whatever its id
LoopRecv(r) ==
  /\ prog = "server"
  /\ recs[r].tpc = "recv"
  /\ wire[r] # <<>>
  /\ tShot' = [tShot EXCEPT ![r] = Head(wire[r])]
  /\ wire' = [wire EXCEPT ![r] = Tail(@)]
  /\ recs' = [recs EXCEPT ![r].tpc = "shot"]
  /\ UNCHANGED <<commonVars, cliVars, runVars, testVars, entryVars, hRecorder, hOutput,
                 hpc, hidx, frameDir, clock, lastResp, lastEncode, posted, hBody,
                 hShot, stamps>>

\* capture_loop: save_frame builds frame_path from self.frame_count
LoopSavePath(r) ==
  /\ prog = "server"
  /\ recs[r].tpc = "shot"
  /\ recs' = [recs EXCEPT ![r].tpc = "write", ![r].tidx = recs[r].frame_count]
  /\ UNCHANGED <<commonVars, cliVars, runVars, testVars, entryVars, hRecorder, hOutput,
                 hpc, hidx, frameDir, clock, lastResp, lastEncode, posted, hBody,
                 orderVars>>

\* capture_loop: save_frame writes the image it holds
LoopSaveWrite(r) ==
  /\ prog = "server"
  /\ recs[r].tpc = "write"
  /\ frameDir' = PutFrame(frameDir, recs[r].tidx)
  /\ stamps' = [stamps EXCEPT ![recs[r].tidx] = tShot[r].at]
  /\ tShot' = [tShot EXCEPT ![r] = NoShot]
  /\ recs' = [recs EXCEPT ![r] = [(IF r = hRecorder THEN Wrote(@, recs[r].tidx) ELSE @)
                                     EXCEPT !.tpc = "incr", !.tidx = 0]]
  /\ UNCHANGED <<commonVars, cliVars, runVars, testVars, entryVars, hRecorder, hOutput,
                 hpc, hidx, clock, lastResp, lastEncode, posted, hBody, wire, hShot>>

\* do_POST /frame: the guard, take_screenshot_cdp up to ws.send
FrameSend(body) ==
  /\ prog = "server"
  /\ HandlerFree
  /\ hRecorder # 0
  /\ recs[hRecorder].ws = "open"
  /\ clock < MaxCaptures
  /\ clock' = clock + 1
  /\ wire' = [wire EXCEPT ![hRecorder] = Append(@, [by |-> "frame", at |-> clock + 1])]
  /\ hpc' = "f_recv"
  /\ hBody' = body
  /\ UNCHANGED <<commonVars, cliVars, runVars, testVars, entryVars, recs, hRecorder,
                 hOutput, hidx, frameDir, lastResp, lastEncode, posted,
                 tShot, hShot, stamps>>

\* do_POST /frame: take_screenshot_cdp, self.ws.recv()
FrameRecv ==
  /\ prog = "server"
  /\ hpc = "f_recv"
  /\ wire[hRecorder] # <<>>
  /\ hShot' = Head(wire[hRecorder])
  /\ wire' = [wire EXCEPT ![hRecorder] = Tail(@)]
  /\ hpc' = "f_shot"
  /\ UNCHANGED <<commonVars, cliVars, runVars, testVars, entryVars, recs, hRecorder,
                 hOutput, hidx, frameDir, clock, lastResp, lastEncode, posted, hBody,
                 tShot, stamps>>

\* do_POST /frame: save_frame builds frame_path from self.frame_count
FrameSavePath ==
  /\ prog = "server"
  /\ hpc = "f_shot"
  /\ hidx' = recs[hRecorder].frame_count
  /\ hpc' = "f_write"
  /\ UNCHANGED <<commonVars, cliVars, runVars, testVars, entryVars, recs, hRecorder,
                 hOutput, frameDir, clock, lastResp, lastEncode, posted, hBody,
                 orderVars>>

\* do_POST /frame: save_frame writes the image it holds
FrameSaveWrite ==
  /\ prog = "server"
  /\ hpc = "f_write"
  /\ frameDir' = PutFrame(frameDir, hidx)
  /\ stamps' = [stamps EXCEPT ![hidx] = hShot.at]
  /\ hShot' = NoShot
  /\ recs' = [recs EXCEPT ![hRecorder] = Wrote(@, hidx)]
  /\ hpc' = "f_incr"
  /\ hidx' = 0
  /\ UNCHANGED <<commonVars, cliVars, runVars, testVars, entryVars, hRecorder,
                 hOutput, clock, lastResp, lastEncode, posted, hBody, wire, tShot>>

\* ----------------------------------------------------------------- claims
DeadOrSignalled(ps, p) == ~Alive(ps, p) \/ ps[p].sig # {}

\* recorders of the control server whose session was started and not stopped
ActiveRecorders == {r \in 1..Len(recs) : recs[r].recording}

\* C1: at most one session is active at a time: the control server never has
\* two recorders recording, and the headless recorder never has two started
\* sessions of which none was stopped (a Start while active is rejected).
C1_AtMostOneActiveSession ==
  /\ Cardinality(ActiveRecorders) <= 1
  /\ prog = "headless" => startsOk - stopsOk <= 1

\* the controller left on SIGINT/SIGTERM delivered while its session was recording
ExitedOnSignalWhileRecording ==
  \/ prog = "run_with" /\ rexit \in {"sigint", "sigterm"}
  \/ prog = "record_test" /\ texit \in {"sigint", "sigterm"} /\ startsOk = 1
  \/ prog = "entrypoint" /\ epc = "exited" /\ esignalled

\* C2: when the controller has exited on a signal delivered while recording,
\* the cleanup of Stop has run: every child process it spawned has exited or
\* has at least been sent its stop signal.
C2_SignalRunsCleanup ==
  ExitedOnSignalWhileRecording => \A p \in Pids : DeadOrSignalled(procs, p)

\* C3: when starting the capture backend failed after the display was
\* started, the display process of that start is no longer running (it has
\* exited or has been sent its termination signal) once the start is over.
C3_NoDisplayAfterFailedBegin ==
  /\ (prog = "run_with" /\ rexit = "start_failed") => DeadOrSignalled(procs, hr_xvfb)
  /\ (prog = "headless" /\ cliOut.result = "error") =>
        DeadOrSignalled(procs, sessions[Len(sessions)][1])
  /\ (prog = "entrypoint" /\ epc = "exited" /\ eexit = 1) =>
        \A i \in 1..Len(processes) : ~Alive(procs, processes[i])

\* C4: in no reachable state has the display of a session been sent its
\* termination signal while the encoder of that session is still alive.
C4_DisplayStoppedAfterEncoder ==
  \A i \in 1..Len(sessions) :
    LET xvfb == sessions[i][1]
        ffmpeg == sessions[i][2]
    IN (xvfb # 0 /\ ffmpeg # 0 /\ "TERM" \in procs[xvfb].sig) => ~Alive(procs, ffmpeg)

\* a save_frame of recorder r has read frame_count and not yet incremented it
SaveInFlight(r) ==
  \/ recs[r].tpc \in {"write", "incr"}
  \/ hRecorder = r /\ hpc \in {"f_write", "f_incr"}

\* C5: within one FrameSampler session, whenever no save is in flight the
\* frame files written are exactly those with indices 0..frame_count-1 and
\* no index was written twice.
C5_FrameIndicesContiguous ==
  \A r \in 1..Len(recs) :
    (Len(recs) = 1 /\ ~SaveInFlight(r)) =>
      /\ recs[r].written = 0..(recs[r].frame_count - 1)
      /\ ~recs[r].rewritten

\* C6: a Stop with no active session is rejected, so at most one Stop is
\* accepted per successful Start: no recorder of the control server is
\* stopped twice, and the headless recorder accepts no more stops than starts.
C6_AtMostOneStopPerStart ==
  /\ \A r \in 1..Len(recs) : recs[r].stops <= 1
  /\ stopsOk <= startsOk

\* C7: a start of the headless recorder that finds the PID marker of an
\* earlier session terminates the display and the encoder the marker names
\* before it spawns the processes of the new session.
C7_StaleMarkerChildrenTerminated ==
  [][(prog = "headless" /\ pidFile # <<>> /\ Len(procs') > Len(procs)) =>
       /\ DeadOrSignalled(procs', pidFile[1])
       /\ DeadOrSignalled(procs', pidFile[2])]_vars

\* C8: End of the streaming encoder: a kill is never the first signal (the
\* graceful signal was sent before), the temporary file is gone once an
\* artifact path is returned, and when End has returned the encoder is not
\* alive -- for ScreenRecorder.stop and for HeadlessRecorder.stop.
C8_EncoderDeadWhenEndReturns ==
  /\ \A p \in Pids :
       (procs[p].kind = "ffmpeg" /\ "KILL" \in procs[p].sig) => "INT" \in procs[p].sig
  /\ (prog = "record_test" /\ texit = "test_exit_code") =>
        /\ ~Alive(procs, rec_process)
        /\ final_file # "" => (final_file \in files /\ TempFile \notin files)
  /\ (prog = "run_with" /\ rexit \in {"returned", "sigint"}) => ~Alive(procs, hr_ffmpeg)

\* C9: when stop_recording runs create_video with fewer than 2 frames
\* counted, the /stop response carries no artifact path, the batch encoder
\* is not invoked and no file is created.
C9_TooFewFramesNoArtifact ==
  [][(hpc = "s_sleep" /\ hpc' # "s_sleep" /\ recs[hRecorder].frame_count < 2) =>
       /\ hpc' = "idle"
       /\ lastResp' = Respond(200, "stopped", "")
       /\ lastEncode' = lastEncode
       /\ files' = files]_vars

\* C9 witness: a /stop was answered for a recorder that counted one frame,
\* with no encode ever invoked and no file created
C9_Witness ==
  /\ prog = "server"
  /\ hpc = "idle"
  /\ hRecorder # 0
  /\ recs[hRecorder].frame_count = 1
  /\ recs[hRecorder].stops = 1
  /\ lastResp = Respond(200, "stopped", "")
  /\ lastEncode = NoEncode
  /\ files = {}

\* C10: a stop reports an artifact path only if that file exists on disk:
\* ScreenRecorder.stop's return value, the output printed by the headless
\* stop_recording, and the output of the /stop response.
C10_ReportedArtifactExists ==
  /\ final_file # "" => final_file \in files
  /\ (cliOut.cmd = "stop" /\ cliOut.result = "stopped") => cliOut.output \in files
  /\ (lastResp.status = "stopped" /\ lastResp.output # "") => lastResp.output \in files

\* C11: the encoder of a session is launched only if the virtual display of
\* that session started and was verified: when HeadlessRecorder spawns ffmpeg
\* its Xvfb is running, when record_test.py spawns ffmpeg wait_for_display
\* had returned True, and when entrypoint.py launches the recording script
\* the display check had not failed.
C11_NoEncoderAfterDisplayFailure ==
  [][/\ (prog = "run_with" /\ hr_ffmpeg' # hr_ffmpeg) => Alive(procs, hr_xvfb)
     /\ (prog = "record_test" /\ rec_process' # rec_process) => display_ok
     /\ (prog = "entrypoint" /\ eexit' = 1 /\ Len(processes') = 1) =>
           \A p \in 1..Len(procs') : procs'[p].kind # "record_test"]_vars

\* C12: a streaming start reports its session as recording only after the
\* startup grace window, on finding the encoder it spawned earlier still
\* running; an encoder that exited inside the window makes the start fail.
C12_StartFailsWhenEncoderExitsEarly ==
  [][(prog \in {"headless", "run_with", "record_test"} /\ startsOk' = startsOk + 1) =>
       Alive(procs, sessions'[Len(sessions')][2])]_vars

\* C13: once stop_recording has closed the connection of a recorder (and
\* while it runs the encoder), the capture loop of that recorder has no
\* capture in flight: it is not between a capture it was granted and the end
\* of save_frame, so no frame file is written after the close.
C13_NoCaptureInFlightAfterClose ==
  \A r \in 1..Len(recs) :
    (recs[r].ws = "closed" \/ (hRecorder = r /\ hpc = "s_encode")) =>
       recs[r].tpc \notin {"write", "incr"}

\* C14: a Start leaves the frame directory empty before the new recording
\* writes its first frame, the Stop that ran the encoder leaves it empty
\* whatever the encoder returned, and after the first session's encode it
\* stays empty as long as no other Start was made.
C14_FrameDirPurged ==
  [][/\ (hpc = "st_connect" /\ startsOk' = startsOk + 1) => frameDir' = EmptyDir
     /\ (hpc = "s_encode" /\ hpc' = "idle") => frameDir' = EmptyDir
     /\ (Len(recs) = 1 /\ lastEncode # NoEncode /\ hpc # "s_encode") =>
           frameDir = EmptyDir]_vars

\* C15: when the first Stop of a session follows n >= 2 /frame calls that
\* each saved a frame, create_video invokes the encoder on exactly n frames
\* at the frame rate the Start configured.
C15_EncodesOneFramePerCaptureCall ==
  [][(hpc = "s_sleep" /\ hpc' # "s_sleep" /\ recs[hRecorder].stops = 1 /\ posted >= 2) =>
       lastEncode' = [frames |-> posted, fps |-> recs[hRecorder].fps]]_vars

\* C16: in every state of the headless recorder (start / stop commands and
\* run_with_recording), if the display or the encoder of a session whose two
\* processes were spawned is still alive, the PID file is present.
C16_MarkerWhileProcessesAlive ==
  prog \in {"headless", "run_with"} =>
    \A i \in 1..Len(sessions) :
      (sessions[i][1] # 0 /\ sessions[i][2] # 0) =>
        \A k \in {1, 2} : Alive(procs, sessions[i][k]) => pidFile # <<>>

\* recorders whose capture loop can still write into the frame directory
Capturing ==
  {r \in 1..Len(recs) : \/ recs[r].tpc \in {"write", "incr"}
                        \/ recs[r].tpc = "loop" /\ recs[r].recording}

\* C17: the frame directory is used by one session at a time: never are the
\* capture loops of two recorder instances able to write into it, and the
\* purge made by a Start happens only when no other recorder is capturing.
C17_FrameDirSingleSession ==
  [][/\ Cardinality(Capturing) <= 1
     /\ (hpc = "st_connect" /\ startsOk' = startsOk + 1) => Capturing = {}]_vars

\* C18: once the backend start of a /start has failed (connect_cdp raised,
\* the handler's recorder has no connection), no later /start is accepted:
\* none binds a new recorder; the control server has no reset operation.
C18_FailedStartBlocksLaterStarts ==
  [][(prog = "server" /\ hpc = "idle" /\ hRecorder # 0 /\ recs[hRecorder].ws = "none") =>
       hRecorder' = hRecorder]_vars

\* C19: the handling of a /stop begins only when no /start is in progress,
\* and the recorder it stops has completed its start: its capture thread was
\* started, or its connection attempt had failed.
C19_StopAfterStartCompleted ==
  [][(hpc' = "s_sleep" /\ hpc # "s_sleep") =>
       /\ hpc # "st_connect"
       /\ hRecorder # 0
       /\ recs[hRecorder].tpc # "none" \/ recs[hRecorder].ws = "none"]_vars

\* C19 witness: a /stop is being handled for a session whose /start completed
C19_Witness ==
  /\ prog = "server"
  /\ hpc = "s_sleep"
  /\ startsOk >= 1
  /\ recs[hRecorder].stops = 1
  /\ recs[hRecorder].tpc # "none"

\* C20: a POST to an unknown path is answered 404 and changes nothing, and
\* a do_POST that received a body that is not valid JSON answers 400, leaves
\* the recorders untouched and returns without doing the endpoint's work.
C20_BadRequestsRejected ==
  [][/\ (lastResp'.code = 404 /\ lastResp # lastResp') =>
           (recs' = recs /\ hRecorder' = hRecorder /\ frameDir' = frameDir /\ hpc' = "idle")
     /\ (hBody = "none" /\ hBody' = "malformed") =>
           (lastResp'.code = 400 /\ recs' = recs /\ hpc' = "idle")]_vars

\* C21: a /frame request handled while the handler's recorder is absent or
\* not recording changes no recorder and no frame file, and is answered 200.
C21_FrameWhileNotRecordingIsNoOp ==
  [][(/\ prog = "server"
      /\ hpc = "idle"
      /\ hRecorder = 0 \/ ~recs[hRecorder].recording
      /\ \/ hpc' = "f_write"
         \/ /\ hpc' = "idle"
            /\ lastResp' # lastResp
            /\ lastResp'.status \in {"", "exception"}) =>
       /\ recs' = recs
       /\ frameDir' = frameDir
       /\ lastResp' = Respond(200, "", "")]_vars

\* C22: frames are numbered in capture order: each requester holds the image
\* taken for its own request, and within one session a frame file with a
\* smaller index holds an image captured earlier.
C22_FramesInCaptureOrder ==
  /\ hShot # NoShot => hShot.by = "frame"
  /\ \A r \in 1..Len(recs) : tShot[r] # NoShot => tShot[r].by = "loop"
  /\ Len(recs) = 1 =>
       \A i, j \in 0..MaxCaptures :
         (i < j /\ stamps[i] # 0 /\ stamps[j] # 0) => stamps[i] < stamps[j]

\* a Stop was accepted and has not returned
StopInProgress ==
  \/ prog = "server" /\ hpc \in {"s_sleep", "s_encode"}
  \/ prog = "record_test" /\ tpc = "stopping"
  \/ prog = "entrypoint" /\ epc = "stop_all"

\* no Stop is running, and the controller is where a Stop leaves it
StopCompleted ==
  \/ prog = "server" /\ hpc = "idle"
  \/ prog = "record_test" /\ tpc = "exited"
  \/ prog = "entrypoint" /\ epc = "exited"

\* C23: every accepted Stop completes: the sampler's /stop is answered and the
\* handler is free for the next request, record_test.py leaves after
\* ScreenRecorder.stop, and stop_all reaches the end of the process list.
C23_StopTerminates == StopInProgress ~> StopCompleted

\* a /stop was answered while the capture thread of its recorder had not ended
C23_Witness ==
  /\ prog = "server"
  /\ hpc = "idle"
  /\ lastResp.status = "stopped"
  /\ hRecorder # 0
  /\ recs[hRecorder].stops = 1
  /\ recs[hRecorder].tpc \in {"loop", "write", "incr"}

\* the process table with the record of past signals wiped: a release applied
\* to it leaves it unchanged exactly when it delivers no signal and reaps nothing
Quiet(ps) == [p \in DOMAIN ps |-> [ps[p] EXCEPT !.sig = {}]]

\* C24: a second release right after a first one signals no process, changes
\* no file and leaves the state as it is, for HeadlessRecorder.stop,
\* stop_recording, ScreenRecorder.stop and ServiceManager.stop_all.
C24_ReleaseIdempotent ==
  /\ (prog = "run_with" /\ rexit \in {"returned", "sigint"}) =>
       \A waited \in WaitOutcomes :
         HeadlessRecorder_stop(Quiet(procs), hr_xvfb, hr_ffmpeg, waited) = Quiet(procs)
  /\ (prog = "headless" /\ cliOut.cmd = "stop") => load_pids(pidFile)[1] = 0
  /\ (prog = "record_test" /\ texit = "test_exit_code") =>
       \A waited \in WaitOutcomes, move \in MoveOutcomes :
         LET again == ScreenRecorder_stop(Quiet(procs), files, rec_process, waited, move)
         IN again[1] = Quiet(procs) /\ again[2] = files
  /\ (prog = "entrypoint" /\ epc = "exited") =>
       \A i \in 1..Len(processes), waited \in WaitOutcomes :
         stop_one(Quiet(procs), processes[i], waited) = Quiet(procs)

\* C25: once record_test.py has exited, by whichever path, the temporary
\* recording file is not on disk.
C25_NoTempFileAfterExit ==
  (prog = "record_test" /\ tpc = "exited") => TempFile \notin files

\* C26: in record_test.py, once ScreenRecorder.start succeeded, the process
\* exits only through ScreenRecorder.stop, also when run_dusk_test raises
\* (exits forced by a signal are left aside).
C26_StopBeforeExit ==
  [][(/\ prog = "record_test"
      /\ startsOk = 1
      /\ tpc # "exited"
      /\ tpc' = "exited"
      /\ texit' \notin {"sigint", "sigterm"}) =>
       (tpc = "stopping" /\ stopsOk' = stopsOk + 1)]_vars

C28_FailedStartLeavesNoSession ==
  [][/\ (lastResp' # lastResp /\ lastResp'.status = "debugger_url required") =>
          (hRecorder' = hRecorder /\ hOutput' = hOutput /\ recs' = recs)
     /\ (hpc = "st_connect" /\ hpc' = "idle" /\ startsOk' = startsOk /\ Len(recs) = 1) =>
          (hRecorder' = 0 /\ hOutput' = "")
     /\ startsOk = 0 => \A r \in 1..Len(recs) : recs[r].tpc = "none"
     /\ (startsOk = 0 /\ hpc = "idle") => hpc' # "s_sleep"]_vars

\* C29: the `stop` command signals the processes of the session that wrote
\* the PID marker and no other: a process that is not a session process never
\* has a signal pending, and an accepted stop leaves SIGTERM pending on every
\* process of the marker that is still alive.
C29_StopSignalsOnlySessionProcesses ==
  [][/\ \A p \in 1..Len(procs') : procs'[p].kind = "other" => procs'[p].sig = {}
     /\ (prog = "headless" /\ stopsOk' = stopsOk + 1) =>
          \A k \in {1, 2} :
            Alive(procs', pidFile[k]) => "TERM" \in procs'[pidFile[k]].sig]_vars

\* C30: the exit status is the test's: record_test.py, once the test command
\* has returned, exits with its exit code whatever happens to the recording;
\* entrypoint.py exits with 1 when a service fails to start and with the
\* recording script's code otherwise (exits forced by a signal are left aside).
C30_ExitStatusIsTestStatus ==
  [][/\ (/\ prog = "record_test"
         /\ tpc = "stopping"
         /\ tpc' = "exited"
         /\ texit' \notin {"sigint", "sigterm"}) => TExitStatus' = test_exit_code
     /\ (/\ prog = "entrypoint"
         /\ epc \in {"xvfb_wait", "xvfb_ok", "cd_wait"}
         /\ epc' = "stop_all"
         /\ ~esignalled') => eexit' = 1
     /\ (/\ prog = "entrypoint"
         /\ epc = "recording"
         /\ epc' = "stop_all"
         /\ ~esignalled') => eexit' \in ExitCodes]_vars

\* --------------------------------------------------------- specification
Init ==
  /\ prog \in Progs
  /\ procs = <<>>
  /\ files = {}
  /\ sessions = <<>>
  /\ pidFile = <<>>
  /\ cliOut = [cmd |-> "none", result |-> "none", output |-> ""]
  /\ startsOk = 0
  /\ stopsOk = 0
  /\ rpc = "init"
  /\ rexit = "none"
  /\ hr_xvfb = 0
  /\ hr_ffmpeg = 0
  /\ tpc = "init"
  /\ texit = "none"
  /\ rec_process = 0
  /\ final_file = ""
  /\ test_exit_code = -1
  /\ display_ok = FALSE
  /\ epc = "init"
  /\ eexit = -1
  /\ processes = <<>>
  /\ stopIdx = 0
  /\ esignalled = FALSE
  /\ recs = <<>>
  /\ hRecorder = 0
  /\ hOutput = ""
  /\ hpc = "idle"
  /\ hidx = 0
  /\ frameDir = EmptyDir
  /\ clock = 0
  /\ lastResp = Respond(0, "none", "")
  /\ lastEncode = NoEncode
  /\ posted = 0
  /\ hBody = "none"
  /\ wire = [r \in 1..MaxRecorders |-> <<>>]
  /\ tShot = [r \in 1..MaxRecorders |-> NoShot]
  /\ hShot = NoShot
  /\ stamps = NoStamps

Next ==
  \/ \E p \in Pids : ProcExits(p)
  \/ \E p \in Pids : EncoderWrites(p)
  \/ \E p \in Pids : PidReused(p)
  \/ \E out \in Paths, spawn \in SpawnOutcomes : CliStart(out, spawn)
  \/ \E slept \in WaitOutcomes : CliStop(slept)
  \/ RunStartXvfb
  \/ \E out \in Paths, spawn \in SpawnOutcomes : RunStartRecording(out, spawn)
  \/ \E waited \in WaitOutcomes : RunCommandDone(waited)
  \/ \E waited \in WaitOutcomes : RunSigint(waited)
  \/ RunSigterm
  \/ \E ok \in BOOLEAN : TWaitDisplay(ok)
  \/ \E spawn \in SpawnOutcomes : TStartSpawn(spawn)
  \/ TStartCheck
  \/ \E rc \in ExitCodes : TTestDone(rc)
  \/ TTestRaises
  \/ \E waited \in WaitOutcomes, move \in MoveOutcomes : TStop(waited, move)
  \/ \E sig \in {"INT", "TERM"} : TSignal(sig)
  \/ EStartXvfb
  \/ \E ok \in BOOLEAN : EVerifyXvfb(ok)
  \/ \E spawn \in SpawnOutcomes : EStartChromedriver(spawn)
  \/ ECheckChromedriver
  \/ ERunRecording
  \/ \E rc \in ExitCodes : ERecordingDone(rc)
  \/ ESignal
  \/ \E waited \in WaitOutcomes : EStopNext(waited)
  \/ \E dbg \in {"missing", "given"}, out \in ServerPaths, fps \in FpsValues :
        ReqStart(dbg, out, fps)
  \/ \E conn \in {"refused", "ok"} : StartConnect(conn)
  \/ \E r \in 1..Len(recs), shot \in {"frame", "none", "raise"} : LoopCapture(r, shot)
  \/ \E r \in 1..Len(recs) : LoopWrite(r)
  \/ \E r \in 1..Len(recs) : LoopIncr(r)
  \/ \E shot \in {"frame", "none", "raise"}, body \in Bodies : ReqFrame(shot, body)
  \/ FrameWrite
  \/ FrameIncr
  \/ \E body \in Bodies : ReqStop(body)
  \/ ReqUnknown
  \/ StopClose
  \/ \E returncode \in ExitCodes : StopEncoded(returncode)

Spec == Init /\ [][Next]_vars

\* one run of the HTTP control server (screenshot_recorder.py --server)
InitServer == Init /\ prog = "server"

NextServer ==
  \/ \E dbg \in {"missing", "given"}, out \in ServerPaths, fps \in FpsValues :
        ReqStart(dbg, out, fps)
  \/ \E conn \in {"refused", "ok"} : StartConnect(conn)
  \/ \E r \in 1..Len(recs), shot \in {"frame", "none", "raise"} : LoopCapture(r, shot)
  \/ \E r \in 1..Len(recs) : LoopWrite(r)
  \/ \E r \in 1..Len(recs) : LoopIncr(r)
  \/ \E shot \in {"frame", "none", "raise"}, body \in Bodies : ReqFrame(shot, body)
  \/ FrameWrite
  \/ FrameIncr
  \/ \E body \in Bodies : ReqStop(body)
  \/ ReqUnknown
  \/ StopClose
  \/ \E returncode \in ExitCodes : StopEncoded(returncode)

SpecServer == InitServer /\ [][NextServer]_vars

\* the control server with the capture path taken call by call (no /stop)
NextOrder ==
  \/ \E dbg \in {"missing", "given"}, out \in ServerPaths, fps \in FpsValues :
        ReqStart(dbg, out, fps)
  \/ \E conn \in {"refused", "ok"} : StartConnect(conn)
  \/ \E r \in 1..Len(recs) : LoopSend(r)
  \/ \E r \in 1..Len(recs) : LoopRecv(r)
  \/ \E r \in 1..Len(recs) : LoopSavePath(r)
  \/ \E r \in 1..Len(recs) : LoopSaveWrite(r)
  \/ \E r \in 1..Len(recs) : LoopIncr(r)
  \/ \E body \in Bodies : FrameSend(body)
  \/ FrameRecv
  \/ FrameSavePath
  \/ FrameSaveWrite
  \/ FrameIncr

SpecOrder == InitServer /\ [][NextOrder]_vars

\* one run of a script that supervises display and encoder processes
InitProcs == Init /\ prog # "server"

NextProcs ==
  \/ \E p \in Pids : ProcExits(p)
  \/ \E p \in Pids : EncoderWrites(p)
  \/ \E p \in Pids : PidReused(p)
  \/ \E out \in Paths, spawn \in SpawnOutcomes : CliStart(out, spawn)
  \/ \E slept \in WaitOutcomes : CliStop(slept)
  \/ RunStartXvfb
  \/ \E out \in Paths, spawn \in SpawnOutcomes : RunStartRecording(out, spawn)
  \/ \E waited \in WaitOutcomes : RunCommandDone(waited)
  \/ \E waited \in WaitOutcomes : RunSigint(waited)
  \/ RunSigterm
  \/ \E ok \in BOOLEAN : TWaitDisplay(ok)
  \/ \E spawn \in SpawnOutcomes : TStartSpawn(spawn)
  \/ TStartCheck
  \/ \E rc \in ExitCodes : TTestDone(rc)
  \/ TTestRaises
  \/ \E waited \in WaitOutcomes, move \in MoveOutcomes : TStop(waited, move)
  \/ \E sig \in {"INT", "TERM"} : TSignal(sig)
  \/ EStartXvfb
  \/ \E ok \in BOOLEAN : EVerifyXvfb(ok)
  \/ \E spawn \in SpawnOutcomes : EStartChromedriver(spawn)
  \/ ECheckChromedriver
  \/ ERunRecording
  \/ \E rc \in ExitCodes : ERecordingDone(rc)
  \/ ESignal
  \/ \E waited \in WaitOutcomes : EStopNext(waited)

SpecProcs == InitProcs /\ [][NextProcs]_vars

\* The steps of a Stop are steps of the main thread: sleeps and waits have a
\* timeout, a killed child is gone, and the batch encoder returns. The capture
\* thread gets no fairness: its ws.recv() has no timeout.
StopFairness ==
  /\ WF_vars(StopClose)
  /\ WF_vars(\E returncode \in ExitCodes : StopEncoded(returncode))
  /\ WF_vars(\E waited \in WaitOutcomes, move \in MoveOutcomes : TStop(waited, move))
  /\ WF_vars(\E waited \in WaitOutcomes : EStopNext(waited))

\* the three scripts whose Stop takes several steps or waits
InitLive == Init /\ prog \in {"server", "record_test", "entrypoint"}

\* record_test.py, entrypoint.py, and Start, Stop and the capture thread of the
\* control server; /frame and unknown paths are handled between two requests
\* and take no part in a Stop
NextLive ==
  \/ \E p \in Pids : ProcExits(p)
  \/ \E p \in Pids : EncoderWrites(p)
  \/ \E ok \in BOOLEAN : TWaitDisplay(ok)
  \/ \E spawn \in SpawnOutcomes : TStartSpawn(spawn)
  \/ TStartCheck
  \/ \E rc \in ExitCodes : TTestDone(rc)
  \/ TTestRaises
  \/ \E waited \in WaitOutcomes, move \in MoveOutcomes : TStop(waited, move)
  \/ \E sig \in {"INT", "TERM"} : TSignal(sig)
  \/ EStartXvfb
  \/ \E ok \in BOOLEAN : EVerifyXvfb(ok)
  \/ \E spawn \in SpawnOutcomes : EStartChromedriver(spawn)
  \/ ECheckChromedriver
  \/ ERunRecording
  \/ \E rc \in ExitCodes : ERecordingDone(rc)
  \/ ESignal
  \/ \E waited \in WaitOutcomes : EStopNext(waited)
  \/ \E dbg \in {"missing", "given"}, out \in ServerPaths, fps \in FpsValues :
        ReqStart(dbg, out, fps)
  \/ \E conn \in {"refused", "ok"} : StartConnect(conn)
  \/ \E r \in 1..Len(recs), shot \in {"frame", "none", "raise"} : LoopCapture(r, shot)
  \/ \E r \in 1..Len(recs) : LoopWrite(r)
  \/ \E r \in 1..Len(recs) : LoopIncr(r)
  \/ \E body \in Bodies : ReqStop(body)
  \/ StopClose
  \/ \E returncode \in ExitCodes : StopEncoded(returncode)

SpecLive == InitLive /\ [][NextLive]_vars /\ StopFairness

====
